---- MODULE Spec2Model ----
(***************************************************************************)
(* Mass-lane tracking, the sparse scan array and its slicing queries, and  *)
(* feature pointers of MzKit (core/data_structs/scan_array.py,             *)
(* core/data_structs/feature_pointer.py).                                  *)
(*                                                                         *)
(* Masses, intensities and retention times are small naturals; the float   *)
(* conversions of the source (f8 lanes, f4 rt_arr and query results) are   *)
(* exact on them.  Lane (row) and scan (column) indices are 0-based as in  *)
(* the source; positions in Python lists are 1-based TLA+ sequences.       *)
(***************************************************************************)
EXTENDS Integers, Sequences, FiniteSets, TLC

\* ---- bound of the model: the longest frame sequence ----
MaxScans == 3

\* ---- input domains: masses, intensities and peaks per frame ----
MzValues == 1..3
IntsyValues == {0, 1, 3}
PeakCounts == 0..2

\* ---- parameter domains: a strict and a lenient tracker, three thresholds ----
Tolerances == {[mz_tolerance |-> 1, scan_gap_tolerance |-> 0],
               [mz_tolerance |-> 2, scan_gap_tolerance |-> 1]}
MinIntsys == {-1, 0, 2}
FirstRts == {1}

NoValue == [kind |-> "none"]

VARIABLES
    pc,                 \* position in build_scan_array
    mz_tolerance, scan_gap_tolerance, min_intsy,   \* its arguments
    total_num_scans,    \* len(spectra)
    scan_num,           \* index of the next frame to handle
    spectra_rt,         \* getRT() of the frames handled so far (0-based function)
    wip_features, final_features,
    cur_signals,        \* the peaks above min_intsy of the frame handled last
    processed,          \* scan indices of the frames that were not skipped
    scan_array,         \* the built ScanArray, or NoValue
    arrays,             \* the ScanArrays a feature pointer may be resolved against
    pointer,            \* a FeaturePointer, or NoValue
    result,             \* what the last query returned, or NoValue
    ensemble,           \* an Ensemble, or NoValue
    controller          \* a ProcessController and its processes, or NoValue

vars == <<pc, mz_tolerance, scan_gap_tolerance, min_intsy, total_num_scans,
          scan_num, spectra_rt, wip_features, final_features, cur_signals,
          processed, scan_array, arrays, pointer, result, ensemble, controller>>

\* ---- helpers ----
Abs(x) == IF x < 0 THEN -x ELSE x

SetMax(S) == CHOOSE x \in S : \A y \in S : y <= x

SetMin(S) == CHOOSE x \in S : \A y \in S : x <= y

RECURSIVE SumOver(_, _)
SumOver(f, S) == IF S = {} THEN 0
                 ELSE LET x == CHOOSE y \in S : TRUE
                      IN  f[x] + SumOver(f, S \ {x})

\* ---- input frames: peaks ordered by ascending mass ----
RECURSIVE PeaksOf(_, _)
PeaksOf(S, f) == IF S = {} THEN <<>>
                 ELSE LET m == SetMin(S)
                      IN  <<[mz |-> m, intsy |-> f[m]]>> \o PeaksOf(S \ {m}, f)

Frames == UNION {{PeaksOf(S, f) : f \in [S -> IntsyValues]} :
                 S \in {T \in SUBSET MzValues : Cardinality(T) \in PeakCounts}}

\* ---- Feature ----
Scans(n) == 0..(n - 1)

Feature(n) == [mz |-> [i \in Scans(n) |-> 0],
               intsy |-> [i \in Scans(n) |-> 0],
               rt |-> [i \in Scans(n) |-> 0],
               gap_counter |-> 0]

nonzero_scans(ftr) == {i \in DOMAIN ftr.intsy : ftr.intsy[i] > 0}

\* latest_scan raises ValueError (max of an empty array) on a lane without a
\* positive intensity
HasLatestScan(ftr) == nonzero_scans(ftr) # {}

latest_scan(ftr) == LET i == SetMax(nonzero_scans(ftr))
                    IN  [mz |-> ftr.mz[i], intsy |-> ftr.intsy[i], rt |-> ftr.rt[i]]

SetSlot(ftr, s, peak, rt) == [ftr EXCEPT !.mz[s] = peak.mz,
                                         !.intsy[s] = peak.intsy,
                                         !.rt[s] = rt]

get_peaks_higher_than_intsy(spectrum, intsy_threshold) ==
    SelectSeq(spectrum, LAMBDA p : p.intsy > intsy_threshold)

\* find_closest_idx accepting a difference equal to the tolerance
find_closest_idx_inclusive(arr, target, tolerance) ==
    LET diff == [i \in DOMAIN arr |-> Abs(arr[i].mz - target)]
        min_idx == SetMin({i \in DOMAIN arr : \A j \in DOMAIN arr : diff[i] <= diff[j]})
    IN  IF diff[min_idx] <= tolerance THEN min_idx ELSE -1

\* 1-based index of the first closest element, or -1
find_closest_idx(arr, target, tolerance) ==
    LET diff == [i \in DOMAIN arr |-> Abs(arr[i].mz - target)]
        min_idx == SetMin({i \in DOMAIN arr : \A j \in DOMAIN arr : diff[i] <= diff[j]})
    IN  IF diff[min_idx] < tolerance THEN min_idx ELSE -1

\* GapExceeded letting a lane go unmatched once more
GapExceededLate(gap_counter, gap_tol) == gap_counter > gap_tol + 1

\* if ftr.gap_counter > scan_gap_tolerance (line 514)
GapExceeded(gap_counter, gap_tol) == gap_counter > gap_tol

\* the loop over wip_features of one frame (lines 497-515)
RECURSIVE MatchLoop(_, _, _, _, _, _, _, _, _)
MatchLoop(i, ftrs, avlb_signals, to_be_moved, spec, s, rt, tol, gap_tol) ==
    IF i > Len(ftrs) THEN [ftrs |-> ftrs, avlb_signals |-> avlb_signals,
                           to_be_moved |-> to_be_moved]
    ELSE LET ftr == ftrs[i]
             min_idx == find_closest_idx(spec, latest_scan(ftr).mz, tol)
         IN  IF min_idx # -1 /\ min_idx \in avlb_signals
             THEN MatchLoop(i + 1,
                            [ftrs EXCEPT ![i] = [SetSlot(ftr, s, spec[min_idx], rt)
                                                 EXCEPT !.gap_counter = 0]],
                            avlb_signals \ {min_idx}, to_be_moved, spec, s, rt,
                            tol, gap_tol)
             ELSE LET g == ftr.gap_counter + 1
                  IN  MatchLoop(i + 1,
                                [ftrs EXCEPT ![i].gap_counter = g],
                                avlb_signals,
                                IF GapExceeded(g, gap_tol)
                                THEN Append(to_be_moved, i) ELSE to_be_moved,
                                spec, s, rt, tol, gap_tol)

Reverse(q) == [i \in 1..Len(q) |-> q[Len(q) + 1 - i]]

SeqRange(q) == {q[i] : i \in DOMAIN q}

\* wip_features keeping the lanes that were appended to final_features
RemainingAll(ftrs, to_be_moved) == ftrs

\* wip_features after popping the positions of to_be_moved (lines 518-521)
Remaining(ftrs, to_be_moved) ==
    LET keep == {i \in DOMAIN ftrs : i \notin SeqRange(to_be_moved)}
        F[i \in 0..Len(ftrs)] ==
            IF i = 0 THEN <<>>
            ELSE IF i \in keep THEN Append(F[i - 1], ftrs[i]) ELSE F[i - 1]
    IN  F[Len(ftrs)]

Moved(ftrs, to_be_moved) == [k \in 1..Len(to_be_moved) |-> ftrs[Reverse(to_be_moved)[k]]]

\* a new lane for every signal, claimed or not
NewFeaturesForAll(spec, avlb_signals, s, rt, n) ==
    [k \in 1..Len(spec) |-> SetSlot(Feature(n), s, spec[k], rt)]

\* a new lane for every signal left unclaimed (lines 524-537)
NewFeatures(spec, avlb_signals, s, rt, n) ==
    LET F[i \in 0..Len(spec)] ==
            IF i = 0 THEN <<>>
            ELSE IF i \in avlb_signals
                 THEN Append(F[i - 1], SetSlot(Feature(n), s, spec[i], rt))
                 ELSE F[i - 1]
    IN  F[Len(spec)]

\* list.sort is stable: insert each element before the first one it beats
InsertBefore(q, x, Beats(_, _)) ==
    LET hits == {j \in DOMAIN q : Beats(x, q[j])}
        pos == IF hits = {} THEN Len(q) + 1 ELSE SetMin(hits)
    IN  SubSeq(q, 1, pos - 1) \o <<x>> \o SubSeq(q, pos, Len(q))

StableSort(q, Beats(_, _)) ==
    LET F[i \in 0..Len(q)] ==
            IF i = 0 THEN <<>> ELSE InsertBefore(F[i - 1], q[i], Beats)
    IN  F[Len(q)]

\* key=latest_scan['intsy'], reverse=True (lines 539-542)
LouderThan(x, y) == latest_scan(x).intsy > latest_scan(y).intsy

\* key=np.mean(nonzero_scans['mz']) (lines 549-551); the mean of no scans is
\* NaN, and every comparison with NaN is false
MeanMzLess(x, y) ==
    LET nx == nonzero_scans(x)
        ny == nonzero_scans(y)
    IN  /\ nx # {}
        /\ ny # {}
        /\ SumOver(x.mz, nx) * Cardinality(ny) < SumOver(y.mz, ny) * Cardinality(nx)

\* the lanes of the first spectrum, unfiltered (lines 470-481)
FirstFeatures(spectrum, rt, n) ==
    [k \in 1..Len(spectrum) |-> SetSlot(Feature(n), 0, spectrum[k], rt)]

\* a frame skipped only when no signal is left
NoSignalLeft(spec) == spec = <<>>

\* if spec_mz.size < 2: continue (lines 490-491)
TooFewSignals(spec) == Len(spec) < 2

\* the body of the loop over the later scans (lines 485-542)
ProcessFrame(wip, final, spectrum, s, rt, n, tol, gap_tol, min_i) ==
    LET spec == get_peaks_higher_than_intsy(spectrum, min_i)
    IN  IF TooFewSignals(spec)
        THEN [status |-> "skipped", wip |-> wip, final |-> final, spec |-> spec]
        ELSE IF \E k \in DOMAIN wip : ~HasLatestScan(wip[k])
        THEN [status |-> "failed", wip |-> wip, final |-> final, spec |-> spec]
        ELSE LET m == MatchLoop(1, wip, DOMAIN spec, <<>>, spec, s, rt, tol, gap_tol)
                 rest == Remaining(m.ftrs, m.to_be_moved)
                 new == NewFeatures(spec, m.avlb_signals, s, rt, n)
             IN  [status |-> "ok",
                  wip |-> StableSort(rest \o new, LouderThan),
                  final |-> final \o Moved(m.ftrs, m.to_be_moved),
                  spec |-> spec]

\* the end of build_features_masscube (lines 544-553)
FinalFeatures(wip, final) == StableSort(final \o wip, MeanMzLess)

\* ---- sparse matrices: the populated cells <<lane, scan>> and their values ----
Cells(n_lanes, n_scans) == (0..(n_lanes - 1)) \X (0..(n_scans - 1))

\* csr_array(rows): the non-zero cells of the stacked rows are the stored ones
csr_array(rows, n_lanes, n_scans) ==
    [shape |-> <<n_lanes, n_scans>>,
     data |-> [c \in {d \in Cells(n_lanes, n_scans) : rows[d[1] + 1][d[2]] # 0} |->
                 rows[c[1] + 1][c[2]]]]

At(m, r, c) == IF <<r, c>> \in DOMAIN m.data THEN m.data[<<r, c>>] ELSE 0

\* first index of the maximum of a row / column, as argmax gives it
ArgMaxCol(m, r) ==
    SetMin({c \in 0..(m.shape[2] - 1) :
              \A d \in 0..(m.shape[2] - 1) : At(m, r, d) <= At(m, r, c)})

\* ScanArray.__post_init__ (lines 89-98)
LaneLabels(mz_arr, intsy_arr) ==
    [r \in 0..(mz_arr.shape[1] - 1) |-> At(mz_arr, r, ArgMaxCol(intsy_arr, r))]

ScanArray(mz_arr, intsy_arr, rt_arr, scan_num_arr, uuid) ==
    [kind |-> "ScanArray", mz_arr |-> mz_arr, intsy_arr |-> intsy_arr,
     rt_arr |-> rt_arr, scan_num_arr |-> scan_num_arr, uuid |-> uuid,
     mz_lane_label |-> LaneLabels(mz_arr, intsy_arr)]

\* rts = ms_data['rt'].max(axis=0) (line 379)
LaneRtMax(features, i) == SetMax({features[k].rt[i] : k \in DOMAIN features})

\* build_scan_array after tracking (lines 376-388)
BuildArray(features, n_scans, uuid) ==
    ScanArray(csr_array([k \in DOMAIN features |-> features[k].mz],
                        Len(features), n_scans),
              csr_array([k \in DOMAIN features |-> features[k].intsy],
                        Len(features), n_scans),
              [i \in Scans(n_scans) |-> LaneRtMax(features, i)],
              [i \in Scans(n_scans) |-> i],
              uuid)

\* ---- build_scan_array, one frame at a time ----
Init ==
    /\ pc = "start"
    /\ \E t \in Tolerances : /\ mz_tolerance = t.mz_tolerance
                              /\ scan_gap_tolerance = t.scan_gap_tolerance
    /\ min_intsy \in MinIntsys
    /\ total_num_scans \in 1..MaxScans
    /\ scan_num = 0
    /\ spectra_rt = <<>>
    /\ wip_features = <<>>
    /\ final_features = <<>>
    /\ cur_signals = <<>>
    /\ processed = {}
    /\ scan_array = NoValue
    /\ arrays = <<>>
    /\ pointer = NoValue
    /\ result = NoValue
    /\ ensemble = NoValue
    /\ controller = NoValue

\* tracking started although min_intsy < 0
TrackWithoutParameterCheck ==
    /\ pc = "start"
    /\ min_intsy < 0
    /\ \E spectrum \in Frames, rt \in FirstRts :
         /\ wip_features' = FirstFeatures(spectrum, rt, total_num_scans)
         /\ spectra_rt' = <<rt>>
         /\ cur_signals' = spectrum
    /\ scan_num' = 1
    /\ processed' = {0}
    /\ pc' = "tracking"
    /\ UNCHANGED <<controller, ensemble, mz_tolerance, scan_gap_tolerance, min_intsy, total_num_scans,
                   final_features, scan_array, arrays, pointer, result>>

\* min_intsy < 0 raises ValueError (lines 356-359)
RejectParameters ==
    /\ pc = "start"
    /\ min_intsy < 0
    /\ pc' = "failed"
    /\ UNCHANGED <<controller, ensemble, mz_tolerance, scan_gap_tolerance, min_intsy, total_num_scans,
                   scan_num, spectra_rt, wip_features, final_features,
                   cur_signals, processed, scan_array, arrays, pointer, result>>

\* one lane per peak of the first spectrum (lines 466-481)
FirstFrame ==
    /\ pc = "start"
    /\ min_intsy >= 0
    /\ \E spectrum \in Frames, rt \in FirstRts :
         /\ wip_features' = FirstFeatures(spectrum, rt, total_num_scans)
         /\ spectra_rt' = <<rt>>
         /\ cur_signals' = spectrum
    /\ scan_num' = 1
    /\ processed' = {0}
    /\ pc' = "tracking"
    /\ UNCHANGED <<controller, ensemble, mz_tolerance, scan_gap_tolerance, min_intsy, total_num_scans,
                   final_features, scan_array, arrays, pointer, result>>

\* one iteration of the loop over the later scans (lines 484-542)
NextFrame ==
    /\ pc = "tracking"
    /\ scan_num < total_num_scans
    /\ \E spectrum \in Frames :
         \E r \in {ProcessFrame(wip_features, final_features, spectrum, scan_num,
                                spectra_rt[Len(spectra_rt)] + 1, total_num_scans,
                                mz_tolerance, scan_gap_tolerance, min_intsy)} :
             /\ spectra_rt' = Append(spectra_rt, spectra_rt[Len(spectra_rt)] + 1)
             /\ cur_signals' = r.spec
             /\ wip_features' = r.wip
             /\ final_features' = r.final
             /\ pc' = IF r.status = "failed" THEN "failed" ELSE pc
             /\ scan_num' = IF r.status = "failed" THEN scan_num ELSE scan_num + 1
             /\ processed' = IF r.status = "ok" THEN processed \cup {scan_num}
                                                ELSE processed
    /\ UNCHANGED <<controller, ensemble, mz_tolerance, scan_gap_tolerance, min_intsy, total_num_scans,
                   scan_array, arrays, pointer, result>>

\* the end of tracking (lines 544-553) and the assembly of the array (lines 371-388)
FinishBuild ==
    /\ pc = "tracking"
    /\ scan_num = total_num_scans
    /\ LET features == FinalFeatures(wip_features, final_features)
       IN  /\ final_features' = features
           /\ wip_features' = <<>>
           /\ IF features = <<>>
              THEN pc' = "failed" /\ scan_array' = NoValue
              ELSE pc' = "built" /\ scan_array' = BuildArray(features, total_num_scans, 1)
    /\ UNCHANGED <<controller, ensemble, mz_tolerance, scan_gap_tolerance, min_intsy, total_num_scans,
                   scan_num, spectra_rt, cur_signals, processed, arrays, pointer,
                   result>>

Next == RejectParameters \/ FirstFrame \/ NextFrame \/ FinishBuild

Spec == Init /\ [][Next]_vars

\* ---- slicing queries of ScanArray ----
NoRange == <<>>

MzRanges == {NoRange} \cup {<<lo, hi>> \in MzValues \X MzValues : lo <= hi}

RtRanges == {NoRange, <<1, 2>>}

RtValues == 0..(MaxScans + 1)

NumLanes(arr) == arr.mz_arr.shape[1]

NumScans(arr) == arr.mz_arr.shape[2]

\* np.where(label >= mz_start & label <= mz_end)[0]: ascending lane indices
MatchArr(arr, mz_range) ==
    {r \in 0..(NumLanes(arr) - 1) :
        arr.mz_lane_label[r] >= mz_range[1] /\ arr.mz_lane_label[r] <= mz_range[2]}

\* ndarray.any() of an array of lane indices: some index is non-zero
AnyLaneIdx(match_arr) == \E r \in match_arr : r # 0

\* np.searchsorted, the binary search as numpy runs it
RECURSIVE BinSearch(_, _, _, _, _)
BinSearch(arr, key, side, imin, imax) ==
    IF imin >= imax THEN imin
    ELSE LET imid == imin + ((imax - imin) \div 2)
             below == IF side = "left" THEN arr[imid] < key ELSE arr[imid] <= key
         IN  IF below THEN BinSearch(arr, key, side, imid + 1, imax)
                      ELSE BinSearch(arr, key, side, imin, imid)

\* argrange (lines 391-414)
argrange(arr, n, start, end) ==
    <<BinSearch(arr, start, "left", 0, n), BinSearch(arr, end, "right", 0, n)>>

\* the scan indices of the slice [start:end]
SliceOf(arr, rt_range) ==
    IF rt_range = NoRange THEN <<0, NumScans(arr)>>
    ELSE argrange(arr.rt_arr, NumScans(arr), rt_range[1], rt_range[2])

ColMax(arr, rows, c) == SetMax({At(arr.intsy_arr, r, c) : r \in rows})

ColSum(arr, rows, c) ==
    SumOver([r \in rows |-> At(arr.intsy_arr, r, c)], rows)

\* argmax(axis=0) of the restricted rows: the first row holding the maximum
ColArgMax(arr, rows, c) ==
    SetMin({r \in rows : \A q \in rows : At(arr.intsy_arr, q, c) <= At(arr.intsy_arr, r, c)})

AllRows(arr) == 0..(NumLanes(arr) - 1)

\* the records of the scans start..end-1, as a sequence
Series(start, end, Rec(_)) ==
    [k \in 1..(IF end > start THEN end - start ELSE 0) |-> Rec(start + k - 1)]

\* ScanArray.get_bpc (lines 108-171)
get_bpc(arr, mz_range, rt_range) ==
    LET match_arr == MatchArr(arr, mz_range)
        bpc_arr == [c \in Scans(NumScans(arr)) |->
                      IF mz_range # NoRange
                      THEN IF AnyLaneIdx(match_arr) THEN ColMax(arr, match_arr, c) ELSE 0
                      ELSE ColMax(arr, AllRows(arr), c)]
        se == SliceOf(arr, rt_range)
        Rec(c) == [intsy |-> bpc_arr[c], rt |-> arr.rt_arr[c]]
    IN  Series(se[1], se[2], Rec)

\* ScanArray.get_xic (lines 173-255)
get_xic(arr, mz_range, rt_range) ==
    LET match_arr == IF mz_range # NoRange THEN MatchArr(arr, mz_range) ELSE AllRows(arr)
        xic_arr == [c \in Scans(NumScans(arr)) |-> ColSum(arr, match_arr, c)]
        tallest_mzs == [c \in Scans(NumScans(arr)) |->
                          IF mz_range # NoRange /\ ~AnyLaneIdx(match_arr)
                          THEN xic_arr[c]
                          ELSE At(arr.mz_arr, ColArgMax(arr, match_arr, c), c)]
        se == SliceOf(arr, rt_range)
        Rec(c) == [mz |-> tallest_mzs[c], intsy |-> xic_arr[c], rt |-> arr.rt_arr[c]]
    IN  Series(se[1], se[2], Rec)

\* ScanArray.rt_to_scan_num (lines 266-277)
rt_to_scan_num(arr, rt) ==
    LET rt_diff == [c \in Scans(NumScans(arr)) |-> Abs(arr.rt_arr[c] - rt)]
    IN  SetMin({c \in DOMAIN rt_diff : \A d \in DOMAIN rt_diff : rt_diff[c] <= rt_diff[d]})

\* a query reads the array and changes nothing of it, so each run of the model
\* makes one query of the array it built
query_unchanged == <<controller, ensemble, mz_tolerance, scan_gap_tolerance, min_intsy, total_num_scans,
                     scan_num, spectra_rt, wip_features, final_features,
                     cur_signals, processed, scan_array, arrays, pointer>>

GetBpc ==
    /\ pc = "built"
    /\ \E mz_range \in MzRanges, rt_range \in RtRanges :
         result' = [op |-> "get_bpc", mz_range |-> mz_range, rt_range |-> rt_range,
                    value |-> get_bpc(scan_array, mz_range, rt_range)]
    /\ pc' = "queried"
    /\ UNCHANGED query_unchanged

GetXic ==
    /\ pc = "built"
    /\ \E mz_range \in MzRanges, rt_range \in RtRanges :
         result' = [op |-> "get_xic", mz_range |-> mz_range, rt_range |-> rt_range,
                    value |-> get_xic(scan_array, mz_range, rt_range)]
    /\ pc' = "queried"
    /\ UNCHANGED query_unchanged

RtToScanNum ==
    /\ pc = "built"
    /\ \E rt \in RtValues :
         result' = [op |-> "rt_to_scan_num", rt |-> rt,
                    value |-> rt_to_scan_num(scan_array, rt)]
    /\ pc' = "queried"
    /\ UNCHANGED query_unchanged

NextQuery == Next \/ GetBpc \/ GetXic \/ RtToScanNum

SpecQuery == Init /\ [][NextQuery]_vars

\* ---- lanes of the tracker ----
AllLanes == SeqRange(wip_features) \cup SeqRange(final_features)

Populated(ftr) == {i \in DOMAIN ftr.mz : ftr.mz[i] # 0}

LastAssigned(ftr) == SetMax(Populated(ftr))

\* a lane is known by the scan and the mass it started with
LaneId(ftr) == LET s == SetMin(Populated(ftr)) IN <<s, ftr.mz[s]>>

Consecutive(ftr, i, j) ==
    /\ i \in Populated(ftr)
    /\ j \in Populated(ftr)
    /\ i < j
    /\ \A k \in Populated(ftr) : ~(i < k /\ k < j)

\* C3: in every lane, the masses at two consecutively populated scan slots
\* differ by strictly less than mz_tolerance
C3_AdjacentMassesWithinTolerance ==
    \A ftr \in AllLanes : \A i, j \in DOMAIN ftr.mz :
        Consecutive(ftr, i, j) => Abs(ftr.mz[i] - ftr.mz[j]) < mz_tolerance

\* a returned lane that followed a drifting mass, next to a lane that was
\* started for a signal a full tolerance away from it
C3_Witness ==
    /\ pc = "built"
    /\ mz_tolerance = 2
    /\ \E ftr \in SeqRange(final_features) : \E i, j \in DOMAIN ftr.mz :
         /\ Consecutive(ftr, i, j)
         /\ Abs(ftr.mz[i] - ftr.mz[j]) = mz_tolerance - 1
         /\ \E other \in SeqRange(final_features) :
              /\ LaneId(other)[1] = j
              /\ Abs(other.mz[j] - ftr.mz[i]) >= mz_tolerance

UnmatchedFrames(ftr) == {p \in processed : p > LastAssigned(ftr)}

C6_NoSignalBelowMinIntsy ==
    pc = "built" =>
        \A ftr \in SeqRange(final_features) : \A i \in DOMAIN ftr.intsy :
            ftr.intsy[i] > 0 => ftr.intsy[i] >= min_intsy

\* C1: a cell is populated in mz_arr iff it is populated in intsy_arr
C1_SameSparsity ==
    pc = "built" => DOMAIN scan_array.mz_arr.data = DOMAIN scan_array.intsy_arr.data

\* C7: rt_arr[i] is the retention time of the i-th input frame
C7_RtArrIsFrameRt ==
    (pc = "built" /\ \A ftr \in SeqRange(final_features) : HasLatestScan(ftr)) =>
        \A i \in DOMAIN scan_array.rt_arr : scan_array.rt_arr[i] = spectra_rt[i + 1]

\* the frame handled by this step was not skipped
FrameProcessed == pc = "tracking" /\ pc' = "tracking" /\ scan_num \in processed'

\* the lane as it is after the step
LaneAfter(ftr) ==
    CHOOSE g \in SeqRange(wip_features') \cup SeqRange(final_features') :
        LaneId(g) = LaneId(ftr)

\* the signals of the frame no lane before position k has been assigned
UnclaimedAt(k) ==
    {j \in DOMAIN cur_signals' :
        \A h \in 1..(k - 1) :
            LaneAfter(wip_features[h]).mz[scan_num] # cur_signals'[j].mz}

\* C5: a lane with an unclaimed signal strictly within mz_tolerance of its most
\* recently assigned mass is assigned the closest such signal, and its gap
\* counter is reset to zero
C5_ClosestUnclaimedAssigned ==
    [][FrameProcessed =>
        \A k \in DOMAIN wip_features :
            LET target == latest_scan(wip_features[k]).mz
                near == {j \in UnclaimedAt(k) :
                           Abs(cur_signals'[j].mz - target) < mz_tolerance}
                after == LaneAfter(wip_features[k])
            IN  near # {} =>
                  /\ after.intsy[scan_num] > 0
                  /\ \A j \in near : Abs(after.mz[scan_num] - target)
                                       <= Abs(cur_signals'[j].mz - target)
                  /\ after.gap_counter = 0]_vars

\* every lane of the built array holds a signal of positive intensity
ArrayOfSignals == \A ftr \in SeqRange(final_features) : HasLatestScan(ftr)

\* the lanes a mass range restricts a query to
Restricted(arr, mz_range) ==
    IF mz_range = NoRange THEN AllRows(arr) ELSE MatchArr(arr, mz_range)

\* C8: with no rt range, get_bpc returns for every scan the maximum intensity
\* over the lanes whose label lies in the mass range (all lanes without a mass
\* range), zero when no lane's label lies in it, aligned with rt_arr
C8_BpcIsMaxOfRestrictedLanes ==
    (pc = "queried" /\ result.op = "get_bpc" /\ result.rt_range = NoRange
       /\ ArrayOfSignals) =>
        LET rows == Restricted(scan_array, result.mz_range)
        IN  /\ Len(result.value) = NumScans(scan_array)
            /\ \A c \in Scans(NumScans(scan_array)) :
                 /\ result.value[c + 1].rt = scan_array.rt_arr[c]
                 /\ result.value[c + 1].intsy =
                      IF rows = {} THEN 0
                      ELSE SetMax({At(scan_array.intsy_arr, r, c) : r \in rows})

\* C9: for a mass range that restricts to at least one lane, get_xic returns
\* for every scan the sum of the restricted lanes' intensities and the mass of
\* a restricted lane of the largest intensity in that scan
C9_XicIsSumAndTallestMass ==
    (pc = "queried" /\ result.op = "get_xic" /\ result.rt_range = NoRange
       /\ result.mz_range # NoRange /\ ArrayOfSignals
       /\ Restricted(scan_array, result.mz_range) # {}) =>
        LET rows == Restricted(scan_array, result.mz_range)
        IN  \A c \in Scans(NumScans(scan_array)) :
              /\ result.value[c + 1].intsy =
                   SumOver([r \in rows |-> At(scan_array.intsy_arr, r, c)], rows)
              /\ \E r \in rows :
                   /\ \A q \in rows : At(scan_array.intsy_arr, q, c)
                                        <= At(scan_array.intsy_arr, r, c)
                   /\ result.value[c + 1].mz = At(scan_array.mz_arr, r, c)

\* C10: rt_to_scan_num(rt_arr[k]) = k for every scan index k
C10_RtToScanNumRoundTrip ==
    (pc = "queried" /\ result.op = "rt_to_scan_num" /\ ArrayOfSignals) =>
        \A k \in Scans(NumScans(scan_array)) :
            result.rt = scan_array.rt_arr[k] => result.value = k

\* ---- build_scan_array as one function of its arguments ----
RECURSIVE TrackFrames(_, _, _, _, _, _, _)
TrackFrames(wip, final, spectra, s, tol, gap_tol, min_i) ==
    IF s >= Len(spectra)
    THEN [status |-> "ok", features |-> FinalFeatures(wip, final)]
    ELSE LET r == ProcessFrame(wip, final, spectra[s + 1].peaks, s, spectra[s + 1].rt,
                               Len(spectra), tol, gap_tol, min_i)
         IN  IF r.status = "failed" THEN [status |-> "failed", features |-> <<>>]
             ELSE TrackFrames(r.wip, r.final, spectra, s + 1, tol, gap_tol, min_i)

\* build_features_masscube (lines 450-553)
build_features_masscube(spectra, tol, gap_tol, min_i) ==
    TrackFrames(FirstFeatures(spectra[1].peaks, spectra[1].rt, Len(spectra)), <<>>,
                spectra, 1, tol, gap_tol, min_i)

\* build_scan_array (lines 310-388); NoValue when it raises
build_scan_array(spectra, tol, gap_tol, min_i, uuid) ==
    IF min_i < 0 THEN NoValue
    ELSE LET t == build_features_masscube(spectra, tol, gap_tol, min_i)
         IN  IF t.status # "ok" \/ t.features = <<>> THEN NoValue
             ELSE BuildArray(t.features, Len(spectra), uuid)

\* ---- FeaturePointer ----
\* the scan indices kept in the order they were supplied
KeepOrder(q) == q

\* np.ndarray.sort of the scan indices (FeaturePointer.__post_init__, line 31)
SortAscending(q) == StableSort(q, LAMBDA x, y : x < y)

\* FeaturePointer(...) (lines 25-31)
FeaturePointer(mz_lane_idx, scan_idxs, source_array_uuid, source_array_shape) ==
    [kind |-> "FeaturePointer", mz_lane_idx |-> mz_lane_idx,
     scan_idxs |-> SortAscending(scan_idxs),
     source_array_uuid |-> source_array_uuid,
     source_array_shape |-> source_array_shape]

AllScanIdxs(n) == [k \in 1..n |-> k - 1]

\* ScanArray.make_feature_pointer (lines 279-295); NoRange stands for None
make_feature_pointer(arr, mass_lane_idx, scan_idxs) ==
    FeaturePointer(mass_lane_idx,
                   IF scan_idxs = NoRange THEN AllScanIdxs(NumScans(arr)) ELSE scan_idxs,
                   arr.uuid, arr.mz_arr.shape)

scan_start(ptr) == ptr.scan_idxs[1]

scan_end(ptr) == ptr.scan_idxs[Len(ptr.scan_idxs)]

Ok(v) == [kind |-> "ok", value |-> v]

UuidMismatch == [kind |-> "error", error |-> "non-matching UUID"]

EmptyReduction == [kind |-> "error", error |-> "zero-size array"]

\* validate_source accepting any array of the pointer's shape
validate_source_by_shape(ptr, arr) == arr.mz_arr.shape = ptr.source_array_shape

\* FeaturePointer.validate_source (lines 140-156): TRUE when it does not raise
validate_source(ptr, arr) == arr.uuid = ptr.source_array_uuid

\* the slice [scan_start:scan_end] of a row or of rt_arr, as a sequence
Window(ptr, Val(_)) == Series(scan_start(ptr), scan_end(ptr), Val)

\* FeaturePointer.get_mz_values (lines 33-52)
get_mz_values(ptr, arr) ==
    IF ~validate_source(ptr, arr) THEN UuidMismatch
    ELSE Ok(Window(ptr, LAMBDA c : At(arr.mz_arr, ptr.mz_lane_idx, c)))

\* FeaturePointer.get_intensity_values (lines 54-74)
get_intensity_values(ptr, arr) ==
    IF ~validate_source(ptr, arr) THEN UuidMismatch
    ELSE Ok(Window(ptr, LAMBDA c : At(arr.intsy_arr, ptr.mz_lane_idx, c)))

\* FeaturePointer.get_retention_times (lines 76-93)
get_retention_times(ptr, arr) ==
    IF ~validate_source(ptr, arr) THEN UuidMismatch
    ELSE Ok(Window(ptr, LAMBDA c : arr.rt_arr[c]))

\* FeaturePointer.get_chrom_array (lines 95-103)
get_chrom_array(ptr, arr) ==
    LET rts == get_retention_times(ptr, arr)
        intsys == get_intensity_values(ptr, arr)
    IN  IF rts.kind = "error" THEN rts
        ELSE IF intsys.kind = "error" THEN intsys
        ELSE Ok([k \in DOMAIN rts.value |->
                   [rt |-> rts.value[k], intsy |-> intsys.value[k]]])

\* the first position of the maximum of a non-empty sequence
SeqArgMax(q) == SetMin({k \in DOMAIN q : \A j \in DOMAIN q : q[j] <= q[k]})

\* FeaturePointer.get_max_intsy (lines 118-126)
get_max_intsy(ptr, arr) ==
    LET intsys == get_intensity_values(ptr, arr)
    IN  IF intsys.kind = "error" THEN intsys
        ELSE IF intsys.value = <<>> THEN EmptyReduction
        ELSE Ok(intsys.value[SeqArgMax(intsys.value)])

\* FeaturePointer.get_max_intsy_scan_num (lines 128-138)
get_max_intsy_scan_num(ptr, arr) ==
    LET intsys == get_intensity_values(ptr, arr)
    IN  IF intsys.kind = "error" THEN intsys
        ELSE IF intsys.value = <<>> THEN EmptyReduction
        ELSE LET rts == get_retention_times(ptr, arr)
             IN  IF rts.kind = "error" THEN rts
                 ELSE Ok(rt_to_scan_num(arr, rts.value[SeqArgMax(intsys.value)]))

ReadOps == {"get_mz_values", "get_intensity_values", "get_retention_times",
            "get_chrom_array", "get_max_intsy", "get_max_intsy_scan_num"}

Read(op, ptr, arr) ==
    CASE op = "get_mz_values" -> get_mz_values(ptr, arr)
      [] op = "get_intensity_values" -> get_intensity_values(ptr, arr)
      [] op = "get_retention_times" -> get_retention_times(ptr, arr)
      [] op = "get_chrom_array" -> get_chrom_array(ptr, arr)
      [] op = "get_max_intsy" -> get_max_intsy(ptr, arr)
      [] op = "get_max_intsy_scan_num" -> get_max_intsy_scan_num(ptr, arr)

\* ---- two arrays and a pointer into the first ----
Peak(m, i) == [mz |-> m, intsy |-> i]

SampleFrames == {<<Peak(1, 1), Peak(2, 3)>>, <<Peak(1, 3), Peak(3, 1)>>}

\* frame sequences of 2..MaxScans frames at retention times 1, 2, ...
SampleSpectra ==
    UNION {{[k \in 1..n |-> [rt |-> k, peaks |-> f[k]]] : f \in [1..n -> SampleFrames]} :
           n \in 2..MaxScans}

\* every build_scan_array call draws a fresh uuid
SampleArrays(uuid) ==
    {build_scan_array(sp, 2, 1, 0, uuid) : sp \in SampleSpectra} \ {NoValue}

\* scan indices in any order: None, or two distinct scan indices
ScanIdxChoices(arr) ==
    {NoRange} \cup {q \in Scans(NumScans(arr)) \X Scans(NumScans(arr)) : q[1] # q[2]}

InitPointer ==
    /\ pc = "arrays"
    /\ mz_tolerance = 2
    /\ scan_gap_tolerance = 1
    /\ min_intsy = 0
    /\ total_num_scans = 0
    /\ scan_num = 0
    /\ spectra_rt = <<>>
    /\ wip_features = <<>>
    /\ final_features = <<>>
    /\ cur_signals = <<>>
    /\ processed = {}
    /\ scan_array = NoValue
    /\ \E a \in SampleArrays(1), b \in SampleArrays(2) : arrays = <<a, b>>
    /\ pointer = NoValue
    /\ result = NoValue
    /\ ensemble = NoValue
    /\ controller = NoValue

pointer_unchanged == <<controller, ensemble, mz_tolerance, scan_gap_tolerance, min_intsy, total_num_scans,
                       scan_num, spectra_rt, wip_features, final_features,
                       cur_signals, processed, scan_array, arrays>>

\* arrays[1].make_feature_pointer(lane, scan_idxs)
MakeFeaturePointer ==
    /\ pc = "arrays"
    /\ \E lane \in AllRows(arrays[1]), scan_idxs \in ScanIdxChoices(arrays[1]) :
         /\ pointer' = make_feature_pointer(arrays[1], lane, scan_idxs)
         /\ result' = [op |-> "make_feature_pointer", scan_idxs |-> scan_idxs]
    /\ pc' = "pointer"
    /\ UNCHANGED pointer_unchanged

\* one read of the pointer against either array
ReadPointer ==
    /\ pc = "pointer"
    /\ \E op \in ReadOps, target \in DOMAIN arrays :
         result' = [op |-> op, target |-> target,
                    returned |-> Read(op, pointer, arrays[target])]
    /\ pc' = "read"
    /\ UNCHANGED pointer_unchanged
    /\ UNCHANGED pointer

NextPointer == MakeFeaturePointer \/ ReadPointer

SpecPointer == InitPointer /\ [][NextPointer]_vars

\* C2: every read of a pointer against an array whose uuid differs from the
\* pointer's source uuid fails with the identity-mismatch error
C2_ForeignArrayReadFails ==
    (pc = "read" /\ arrays[result.target].uuid # pointer.source_array_uuid) =>
        result.returned = UuidMismatch

\* a read of the apex scan against another array of the very shape of the
\* pointer's source array was refused
C2_Witness ==
    /\ pc = "read"
    /\ result.op = "get_max_intsy_scan_num"
    /\ arrays[result.target].uuid # pointer.source_array_uuid
    /\ arrays[result.target].mz_arr.shape = pointer.source_array_shape
    /\ result.returned.kind = "error"

\* C11: a pointer made with no scan indices (it then carries every scan index
\* of its array) returns, from get_intensity_values, get_mz_values and
\* get_retention_times, one value per scan of the array, the last included
C11_WholeRangePointerReadsEveryScan ==
    (/\ pc = "read"
     /\ result.target = 1
     /\ result.op \in {"get_intensity_values", "get_mz_values", "get_retention_times"}
     /\ pointer.scan_idxs = AllScanIdxs(NumScans(arrays[1])))
        => /\ result.returned.kind = "ok"
           /\ Len(result.returned.value) = NumScans(arrays[1])

\* ---- floating-point numbers (np.float64 arithmetic of find_cofeatures.py) ----
\* A number is m * 2^e with 2^(MantissaBits-1) <= |m| < 2^MantissaBits, or zero;
\* every operation rounds its exact result to nearest, ties to even.
MantissaBits == 11

NaN == [kind |-> "nan"]

Num(m, e) == [kind |-> "num", m |-> m, e |-> e]

FZero == Num(0, 0)

IsNaN(x) == x.kind = "nan"

RECURSIVE BitLen(_)
BitLen(n) == IF n = 0 THEN 0 ELSE 1 + BitLen(n \div 2)

\* sign * m * 2^e (m > 0 exact) rounded to MantissaBits bits
RoundToNearestEven(sign, m, e) ==
    LET L == BitLen(m)
    IN  IF L <= MantissaBits
        THEN Num(sign * m * 2^(MantissaBits - L), e - (MantissaBits - L))
        ELSE LET sh == L - MantissaBits
                 q == m \div 2^sh
                 r == m % 2^sh
                 half == 2^(sh - 1)
                 up == r > half \/ (r = half /\ q % 2 = 1)
                 q1 == IF up THEN q + 1 ELSE q
             IN  IF q1 = 2^MantissaBits THEN Num(sign * (q1 \div 2), e + sh + 1)
                 ELSE Num(sign * q1, e + sh)

FromInt(n) == IF n = 0 THEN FZero
              ELSE RoundToNearestEven(IF n > 0 THEN 1 ELSE -1, Abs(n), 0)

FNeg(x) == IF IsNaN(x) THEN NaN ELSE Num(-x.m, x.e)

\* x + y: the smaller operand is aligned with three guard bits, the bits
\* shifted out kept as a sticky bit
FAdd(x, y) ==
    IF IsNaN(x) \/ IsNaN(y) THEN NaN
    ELSE IF x.m = 0 THEN y
    ELSE IF y.m = 0 THEN x
    ELSE LET hi == IF x.e >= y.e THEN x ELSE y
             lo == IF x.e >= y.e THEN y ELSE x
             d == hi.e - lo.e
             a == hi.m * 8
             mag == Abs(lo.m) * 8
             b == IF d > MantissaBits + 3 THEN 1
                  ELSE (mag \div 2^d) + (IF mag % 2^d # 0 /\ (mag \div 2^d) % 2 = 0
                                         THEN 1 ELSE 0)
             t == a + (IF lo.m > 0 THEN b ELSE -b)
         IN  IF t = 0 THEN FZero
             ELSE RoundToNearestEven(IF t > 0 THEN 1 ELSE -1, Abs(t), hi.e - 3)

FSub(x, y) == FAdd(x, FNeg(y))

FMul(x, y) ==
    IF IsNaN(x) \/ IsNaN(y) THEN NaN
    ELSE IF x.m = 0 \/ y.m = 0 THEN FZero
    ELSE RoundToNearestEven(IF (x.m > 0) = (y.m > 0) THEN 1 ELSE -1,
                            Abs(x.m) * Abs(y.m), x.e + y.e)

\* x / y; 0 / 0 is NaN. The series divided here are non-negative and never
\* exceed their divisor, so a non-zero number is never divided by zero.
FDiv(x, y) ==
    IF IsNaN(x) \/ IsNaN(y) THEN NaN
    ELSE IF y.m = 0 THEN NaN
    ELSE IF x.m = 0 THEN FZero
    ELSE LET n == Abs(x.m) * 2^(MantissaBits + 1)
             d == Abs(y.m)
             q == 2 * (n \div d) + (IF n % d # 0 THEN 1 ELSE 0)
         IN  RoundToNearestEven(IF (x.m > 0) = (y.m > 0) THEN 1 ELSE -1,
                                q, x.e - y.e - MantissaBits - 2)

RECURSIVE ISqrtBetween(_, _, _)
ISqrtBetween(n, lo, hi) ==
    IF hi - lo <= 1 THEN lo
    ELSE LET mid == (lo + hi) \div 2
         IN  IF mid * mid <= n THEN ISqrtBetween(n, mid, hi)
             ELSE ISqrtBetween(n, lo, mid)

\* np.sqrt of a non-negative number
FSqrt(x) ==
    IF IsNaN(x) \/ x.m < 0 THEN NaN
    ELSE IF x.m = 0 THEN FZero
    ELSE LET k == IF (x.e - (MantissaBits + 1)) % 2 = 0 THEN MantissaBits + 1
                  ELSE MantissaBits + 2
             n == x.m * 2^k
             r == ISqrtBetween(n, 0, 2^(MantissaBits + 2))
             st == IF r * r # n THEN 1 ELSE 0
         IN  RoundToNearestEven(1, 2 * r + st, ((x.e - k) \div 2) - 1)

FIsZero(x) == ~IsNaN(x) /\ x.m = 0

FSign(x) == IF x.m > 0 THEN 1 ELSE IF x.m < 0 THEN -1 ELSE 0

\* x < y; FALSE when either is NaN
FLess(x, y) ==
    IF IsNaN(x) \/ IsNaN(y) THEN FALSE
    ELSE IF FSign(x) # FSign(y) THEN FSign(x) < FSign(y)
    ELSE IF FSign(x) = 0 THEN FALSE
    ELSE IF FSign(x) = 1 THEN x.e < y.e \/ (x.e = y.e /\ x.m < y.m)
    ELSE x.e > y.e \/ (x.e = y.e /\ x.m < y.m)

FGreater(x, y) == FLess(y, x)

\* ---- find_cofeatures.py ----
\* min_nonzero_overlap (default argument of _calculate_pearson_correlations)
min_nonzero_overlap == 4

\* left-to-right sum of q[1..k] (np.sum / np.dot accumulate in index order)
RECURSIVE FSum(_, _)
FSum(q, k) == IF k = 0 THEN FZero ELSE FAdd(FSum(q, k - 1), q[k])

\* ndarray.max of a non-empty series without NaN
RECURSIVE FMax(_, _)
FMax(q, k) == IF k = 1 THEN q[1]
              ELSE LET best == FMax(q, k - 1)
                   IN  IF FLess(best, q[k]) THEN q[k] ELSE best

\* the elements of q at the positions of keep, in order
RECURSIVE Compress(_, _, _)
Compress(q, keep, k) ==
    IF k = 0 THEN <<>>
    ELSE IF k \in keep THEN Append(Compress(q, keep, k - 1), q[k])
    ELSE Compress(q, keep, k - 1)

\* the members of a set of integers in ascending order (np.where(...)[0])
RECURSIVE Ascending(_)
Ascending(S) == IF S = {} THEN <<>>
                ELSE Append(Ascending(S \ {SetMax(S)}), SetMax(S))

\* intsy_arr[lane, start:end].toarray(), as float64
IntsyRow(arr, lane, start, end) ==
    Series(start, end, LAMBDA c : FromInt(At(arr.intsy_arr, lane, c)))

\* series / series.max()
Normalised(row) == LET top == FMax(row, Len(row))
                   IN  [k \in DOMAIN row |-> FDiv(row[k], top)]

\* _find_nonzero_mass_lanes (lines 129-140): the maximum is taken over the
\* columns listed in scan_idxs
find_nonzero_mass_lanes(arr, scan_idxs, min_i) ==
    Ascending({lane \in AllRows(arr) :
                 SetMax({At(arr.intsy_arr, lane, c) : c \in SeqRange(scan_idxs)}) > min_i})

\* _get_xic_grid (lines 93-126); np.max over an empty window raises
get_xic_grid(mass_lane_idxs, arr, start, end, use_rel_intsy) ==
    IF use_rel_intsy /\ end <= start THEN EmptyReduction
    ELSE Ok([i \in DOMAIN mass_lane_idxs |->
               LET row == IntsyRow(arr, mass_lane_idxs[i], start, end)
               IN  IF use_rel_intsy THEN Normalised(row) ELSE row])

\* an overlap of min_nonzero_overlap - 1 positions accepted
InsufficientOverlapLoose(n_overlap) == n_overlap + 1 < min_nonzero_overlap

\* if n_overlap < min_nonzero_overlap: continue (line 181)
InsufficientOverlap(n_overlap) == n_overlap < min_nonzero_overlap

\* one iteration of the loop of _calculate_pearson_correlations (lines 173-206)
Pearson(candidate_xic, search_xic) ==
    LET nonzero_mask == {k \in DOMAIN candidate_xic :
                           ~FIsZero(candidate_xic[k]) /\ ~FIsZero(search_xic[k])}
        n_overlap == Cardinality(nonzero_mask)
    IN  IF InsufficientOverlap(n_overlap) THEN NaN
        ELSE LET candidate_nonzero == Compress(candidate_xic, nonzero_mask,
                                               Len(candidate_xic))
                 search_nonzero == Compress(search_xic, nonzero_mask, Len(search_xic))
                 candidate_mean == FDiv(FSum(candidate_nonzero, n_overlap),
                                        FromInt(n_overlap))
                 search_mean == FDiv(FSum(search_nonzero, n_overlap), FromInt(n_overlap))
                 candidate_centered == [k \in 1..n_overlap |->
                                          FSub(candidate_nonzero[k], candidate_mean)]
                 search_centered == [k \in 1..n_overlap |->
                                       FSub(search_nonzero[k], search_mean)]
                 numerator == FSum([k \in 1..n_overlap |->
                                      FMul(candidate_centered[k], search_centered[k])],
                                   n_overlap)
                 denominator ==
                     FSqrt(FMul(FSum([k \in 1..n_overlap |->
                                        FMul(candidate_centered[k], candidate_centered[k])],
                                     n_overlap),
                                FSum([k \in 1..n_overlap |->
                                        FMul(search_centered[k], search_centered[k])],
                                     n_overlap)))
             IN  IF FIsZero(denominator) THEN NaN ELSE FDiv(numerator, denominator)

\* _calculate_pearson_correlations (lines 156-208)
calculate_pearson_correlations(candidate_xics, search_xic) ==
    [i \in DOMAIN candidate_xics |-> Pearson(candidate_xics[i], search_xic)]

\* _filter_candidates_by_correlation (lines 143-153)
filter_candidates_by_correlation(correlations, min_correlation, mass_lane_idxs) ==
    Compress(mass_lane_idxs,
             {i \in DOMAIN correlations : FGreater(correlations[i], min_correlation)},
             Len(mass_lane_idxs))

\* the steps of find_cofeatures_within_scan_array up to the filter (lines 36-76)
WithinSteps(arr, search_target, min_correlation, min_i, use_rel_intsy) ==
    LET nonzero_mass_lane_idxs ==
            find_nonzero_mass_lanes(arr, search_target.scan_idxs, min_i)
        candidate_xics == get_xic_grid(nonzero_mass_lane_idxs, arr,
                                       scan_start(search_target),
                                       scan_end(search_target), use_rel_intsy)
        raw_xic == get_intensity_values(search_target, arr)
    IN  IF candidate_xics.kind = "error" THEN candidate_xics
        ELSE IF raw_xic.kind = "error" THEN raw_xic
        ELSE IF use_rel_intsy /\ raw_xic.value = <<>> THEN EmptyReduction
        ELSE LET as_float == [k \in DOMAIN raw_xic.value |-> FromInt(raw_xic.value[k])]
                 search_xic == IF use_rel_intsy THEN Normalised(as_float) ELSE as_float
                 correlations ==
                     calculate_pearson_correlations(candidate_xics.value, search_xic)
             IN  [kind |-> "ok",
                  lanes |-> nonzero_mass_lane_idxs,
                  correlations |-> correlations,
                  matching |-> filter_candidates_by_correlation(
                                   correlations, min_correlation, nonzero_mass_lane_idxs)]

\* the list built from the matching lanes (lines 78-90)
WithinResult(arr, search_target, steps) ==
    IF steps.kind = "error" THEN steps
    ELSE LET others == Compress(steps.matching,
                                {i \in DOMAIN steps.matching :
                                   steps.matching[i] # search_target.mz_lane_idx},
                                Len(steps.matching))
         IN  Ok(<<search_target>> \o
                [i \in DOMAIN others |->
                   make_feature_pointer(arr, others[i], search_target.scan_idxs)])

\* find_cofeatures_within_scan_array (lines 12-90)
find_cofeatures_within_scan_array(arr, search_target, min_correlation, min_i, use_rel_intsy) ==
    WithinResult(arr, search_target,
                 WithinSteps(arr, search_target, min_correlation, min_i, use_rel_intsy))

\* np.interp(x, xp, fp) at one point, xp increasing and non-empty: fp at the
\* ends outside xp, fp[j] at a sample point, else slope * (x - xp[j]) + fp[j]
Interp1(x, xp, fp) ==
    IF x < xp[1] THEN fp[1]
    ELSE IF x >= xp[Len(xp)] THEN fp[Len(fp)]
    ELSE LET j == SetMax({k \in DOMAIN xp : xp[k] <= x})
         IN  IF xp[j] = x THEN fp[j]
             ELSE LET slope == FDiv(FSub(fp[j + 1], fp[j]), FromInt(xp[j + 1] - xp[j]))
                  IN  FAdd(FMul(slope, FromInt(x - xp[j])), fp[j])

interp(x, xp, fp) == [k \in DOMAIN x |-> Interp1(x[k], xp, fp)]

\* find_cofeatures_across_scan_array up to the filter (lines 242-305)
AcrossSteps(source_scan_array, target_scan_array, search_target, min_correlation, min_i, use_rel_intsy) ==
    LET rts_search == get_retention_times(search_target, source_scan_array)
    IN  IF rts_search.kind = "error" THEN rts_search
        ELSE IF rts_search.value = <<>> THEN EmptyReduction
        ELSE
        LET rt_start == SetMin(SeqRange(rts_search.value))
            rt_end == SetMax(SeqRange(rts_search.value))
            inside == {c \in Scans(NumScans(target_scan_array)) :
                         /\ rt_start < target_scan_array.rt_arr[c]
                         /\ target_scan_array.rt_arr[c] < rt_end}
        IN  IF inside = {} THEN EmptyReduction
            ELSE
            LET target_scan_idxs == Ascending(inside)
                target_scan_start == SetMin(inside)
                target_scan_end == SetMax(inside)
                nonzero_mass_lane_idxs ==
                    find_nonzero_mass_lanes(target_scan_array, target_scan_idxs, min_i)
                candidate_xics == get_xic_grid(nonzero_mass_lane_idxs, target_scan_array,
                                               target_scan_start, target_scan_end,
                                               use_rel_intsy)
                rt_source == rts_search.value
                rt_target == Series(target_scan_start, target_scan_end,
                                    LAMBDA c : target_scan_array.rt_arr[c])
                raw_xic == get_intensity_values(search_target, source_scan_array).value
                as_float == [k \in DOMAIN raw_xic |-> FromInt(raw_xic[k])]
                search_xic == IF use_rel_intsy THEN Normalised(as_float) ELSE as_float
                interp_search_xic == interp(rt_target, rt_source, search_xic)
            IN  IF candidate_xics.kind = "error" THEN candidate_xics
                ELSE LET correlations == calculate_pearson_correlations(
                                             candidate_xics.value, interp_search_xic)
                     IN  [kind |-> "ok",
                          target_scan_idxs |-> target_scan_idxs,
                          interp_search_xic |-> interp_search_xic,
                          lanes |-> nonzero_mass_lane_idxs,
                          correlations |-> correlations,
                          matching |-> filter_candidates_by_correlation(
                                           correlations, min_correlation,
                                           nonzero_mass_lane_idxs)]

\* the list built from the matching lanes (lines 307-319)
AcrossResult(target_scan_array, steps) ==
    IF steps.kind = "error" THEN steps
    ELSE Ok([i \in DOMAIN steps.matching |->
               make_feature_pointer(target_scan_array, steps.matching[i],
                                    steps.target_scan_idxs)])

\* find_cofeatures_across_scan_array (lines 211-319)
find_cofeatures_across_scan_array(source_scan_array, target_scan_array, search_target, min_correlation, min_i, use_rel_intsy) ==
    AcrossResult(target_scan_array,
                 AcrossSteps(source_scan_array, target_scan_array, search_target,
                             min_correlation, min_i, use_rel_intsy))

\* ---- arrays given lane by lane, a reference pointer and one search ----
\* intensity series of a lane, scan by scan
SampleSeries == {<<1, 2, 3, 2, 3, 0>>, <<3, 6, 9, 6, 9, 1>>, <<0, 3, 1, 2, 0, 0>>,
                 <<2, 4, 4, 4, 2, 1>>, <<1, 2, 2, 2, 1, 3>>}

\* the array whose lane k (of mass k) has the intensity series lanes[k]
LaneArray(lanes, rts, uuid) ==
    LET n_scans == Len(rts)
    IN  ScanArray(csr_array([k \in DOMAIN lanes |->
                               [c \in Scans(n_scans) |->
                                  IF lanes[k][c + 1] # 0 THEN k ELSE 0]],
                            Len(lanes), n_scans),
                  csr_array([k \in DOMAIN lanes |->
                               [c \in Scans(n_scans) |-> lanes[k][c + 1]]],
                            Len(lanes), n_scans),
                  [c \in Scans(n_scans) |-> rts[c + 1]],
                  [c \in Scans(n_scans) |-> c],
                  uuid)

\* three different lanes, in any order
SourceArrays ==
    {LaneArray(q, <<10, 20, 30, 40, 50, 60>>, 1) :
       q \in {r \in SampleSeries \X SampleSeries \X SampleSeries :
                r[1] # r[2] /\ r[1] # r[3] /\ r[2] # r[3]}}

\* a second acquisition, sampled twice as often
TargetArrays ==
    {LaneArray(<<a, <<0, 0, 2, 1, 3, 0, 0>>>>, <<15, 20, 25, 30, 35, 45, 55>>, 2) :
       a \in {<<3, 4, 5, 6, 5, 4, 1>>, <<2, 1, 2, 1, 2, 1, 2>>}}
    \cup {LaneArray(<<<<3, 4, 5, 6, 5, 4, 1>>, <<0, 0, 2, 1, 3, 0, 0>>>>,
                     <<65, 70, 75, 80, 85, 90, 95>>, 2)}

\* min_correlation as a ratio p / q
MinCorrelations == {<<-1, 1>>, <<19, 20>>, <<1, 1>>}

Ratio(r) == FDiv(FromInt(r[1]), FromInt(r[2]))

MinIntensities == {0, 2}

\* None (the whole lane), np.arange(1, 6), or a single scan
ReferenceScanIdxs == {NoRange, <<1, 2, 3, 4, 5>>, <<1>>}

InitCofeature ==
    /\ pc = "arrays"
    /\ mz_tolerance = 0
    /\ scan_gap_tolerance = 0
    /\ min_intsy = 0
    /\ total_num_scans = 0
    /\ scan_num = 0
    /\ spectra_rt = <<>>
    /\ wip_features = <<>>
    /\ final_features = <<>>
    /\ cur_signals = <<>>
    /\ processed = {}
    /\ scan_array = NoValue
    /\ \E a \in SourceArrays : arrays = <<a>>
    /\ pointer = NoValue
    /\ result = NoValue
    /\ ensemble = NoValue
    /\ controller = NoValue

\* arrays[1].make_feature_pointer(lane, scan_idxs): the reference
MakeReference ==
    /\ pc = "arrays"
    /\ \E lane \in AllRows(arrays[1]), scan_idxs \in ReferenceScanIdxs :
         /\ pointer' = make_feature_pointer(arrays[1], lane, scan_idxs)
         /\ result' = [op |-> "make_feature_pointer", scan_idxs |-> scan_idxs]
    /\ pc' = "pointer"
    /\ UNCHANGED pointer_unchanged

\* one call of find_cofeatures_within_scan_array; lanes and correlations are
\* the lines it prints (lines 65-69)
FindWithin ==
    /\ pc = "pointer"
    /\ \E c \in MinCorrelations, i \in MinIntensities, rel \in BOOLEAN :
         \E steps \in {WithinSteps(arrays[1], pointer, Ratio(c), i, rel)} :
           result' = [op |-> "within", min_correlation |-> c, min_intsy |-> i,
                      use_rel_intsy |-> rel,
                      lanes |-> IF steps.kind = "ok" THEN steps.lanes ELSE <<>>,
                      correlations |-> IF steps.kind = "ok" THEN steps.correlations
                                       ELSE <<>>,
                      returned |-> WithinResult(arrays[1], pointer, steps)]
    /\ pc' = "searched"
    /\ UNCHANGED pointer_unchanged
    /\ UNCHANGED pointer

\* one call of find_cofeatures_across_scan_array against a second array
FindAcross ==
    /\ pc = "pointer"
    /\ \E t \in TargetArrays, c \in MinCorrelations, i \in MinIntensities, rel \in BOOLEAN :
         \E steps \in {AcrossSteps(arrays[1], t, pointer, Ratio(c), i, rel)} :
           /\ arrays' = <<arrays[1], t>>
           /\ result' = [op |-> "across", min_correlation |-> c, min_intsy |-> i,
                         use_rel_intsy |-> rel,
                         lanes |-> IF steps.kind = "ok" THEN steps.lanes ELSE <<>>,
                         correlations |-> IF steps.kind = "ok" THEN steps.correlations
                                          ELSE <<>>,
                         interp_search_xic |-> IF steps.kind = "ok"
                                               THEN steps.interp_search_xic ELSE <<>>,
                         returned |-> AcrossResult(t, steps)]
    /\ pc' = "searched"
    /\ UNCHANGED <<controller, ensemble, mz_tolerance, scan_gap_tolerance, min_intsy, total_num_scans,
                   scan_num, spectra_rt, wip_features, final_features,
                   cur_signals, processed, scan_array, pointer>>

NextCofeature == MakeReference \/ FindWithin \/ FindAcross

SpecCofeature == InitCofeature /\ [][NextCofeature]_vars

\* ---- claims about find_cofeatures_within_scan_array ----
FOne == FromInt(1)

InUnitRange(r) == ~FLess(FOne, r) /\ ~FLess(r, FNeg(FOne))

Searched(op) == pc = "searched" /\ result.op = op /\ result.returned.kind = "ok"

\* C14: every correlation the search computed is NaN or lies in [-1, 1]
C14_CorrelationsInUnitRange ==
    Searched("within") =>
        \A i \in DOMAIN result.correlations :
            IsNaN(result.correlations[i]) \/ InUnitRange(result.correlations[i])

\* the scans of the window [scan_start:scan_end] at which the lane and the
\* reference both hold a non-zero intensity
JointNonZero(arr, lane, ptr) ==
    {c \in scan_start(ptr)..(scan_end(ptr) - 1) :
       At(arr.intsy_arr, lane, c) # 0 /\ At(arr.intsy_arr, ptr.mz_lane_idx, c) # 0}

\* the lanes of the pointers returned after the reference
MatchedLanes == {result.returned.value[k].mz_lane_idx :
                   k \in DOMAIN result.returned.value \ {1}}

SeriesOver(arr, lane, first, last, rel) ==
    LET row == IntsyRow(arr, lane, first, last + 1)
    IN  IF rel /\ row # <<>> THEN Normalised(row) ELSE row

\* the lanes other than the reference's whose maximum over the scans
\* first..last exceeds min_i and whose correlation with the reference over
\* those scans exceeds min_correlation
QualifyingLanes(arr, ptr, min_correlation, min_i, rel, first, last) ==
    {lane \in AllRows(arr) \ {ptr.mz_lane_idx} :
       /\ \E c \in first..last : At(arr.intsy_arr, lane, c) > min_i
       /\ FGreater(Pearson(SeriesOver(arr, lane, first, last, rel),
                           SeriesOver(arr, ptr.mz_lane_idx, first, last, rel)),
                   min_correlation)}

\* C12: the search returns the reference, then one pointer over the
\* reference's scan indices for exactly the other lanes whose maximum within
\* the reference's scan window exceeds min_intsy and whose correlation over
\* that window exceeds min_correlation, no lane twice; the window is read
\* either with or without the reference's last scan
C12_WithinReturnsQualifyingLanes ==
    Searched("within") =>
        LET out == result.returned.value
        IN  /\ out[1] = pointer
            /\ \A k \in DOMAIN out \ {1} :
                 /\ out[k] = make_feature_pointer(arrays[1], out[k].mz_lane_idx,
                                                  pointer.scan_idxs)
                 /\ out[k].mz_lane_idx # pointer.mz_lane_idx
            /\ \A j, k \in DOMAIN out : out[j].mz_lane_idx = out[k].mz_lane_idx => j = k
            /\ \/ MatchedLanes = QualifyingLanes(arrays[1], pointer,
                                                 Ratio(result.min_correlation),
                                                 result.min_intsy, result.use_rel_intsy,
                                                 scan_start(pointer), scan_end(pointer))
               \/ MatchedLanes = QualifyingLanes(arrays[1], pointer,
                                                 Ratio(result.min_correlation),
                                                 result.min_intsy, result.use_rel_intsy,
                                                 scan_start(pointer),
                                                 scan_end(pointer) - 1)

\* the same search with the other setting of use_rel_intsy
OtherSetting ==
    WithinSteps(arrays[1], pointer, Ratio(result.min_correlation), result.min_intsy,
                ~result.use_rel_intsy)

\* C15: with use_rel_intsy=True the search returns the same lanes as with
\* use_rel_intsy=False, for the same array, reference, min_correlation and
\* min_intsy
C15_RelIntsyChangesNoOutcome ==
    (pc = "searched" /\ result.op = "within") =>
        result.returned = WithinResult(arrays[1], pointer, OtherSetting)

\* ---- claims about find_cofeatures_across_scan_array ----
\* the target scans whose retention time lies in the reference's span, the
\* span running from the reference's first scan to its last; strict or not
TargetScansInSpan(strict) ==
    LET lo == arrays[1].rt_arr[scan_start(pointer)]
        hi == arrays[1].rt_arr[scan_end(pointer)]
    IN  {c \in Scans(NumScans(arrays[2])) :
           IF strict THEN lo < arrays[2].rt_arr[c] /\ arrays[2].rt_arr[c] < hi
           ELSE lo <= arrays[2].rt_arr[c] /\ arrays[2].rt_arr[c] <= hi}

\* C16: the interpolated reference series has exactly one point per target
\* scan whose retention time lies within the reference's retention-time span
C16_OneInterpolatedPointPerTargetScan ==
    Searched("across") =>
        \E strict \in BOOLEAN :
            Len(result.interp_search_xic) = Cardinality(TargetScansInSpan(strict))

\* C17: the cross-array search returns only pointers into the target array,
\* each carrying the target scan indices inside the reference's
\* retention-time span, one per target lane that passed both thresholds, and
\* never the reference
C17_AcrossReturnsTargetPointers ==
    Searched("across") =>
        LET out == result.returned.value
        IN  /\ \A k \in DOMAIN out :
                 /\ validate_source(out[k], arrays[2])
                 /\ out[k] # pointer
                 /\ \E strict \in BOOLEAN :
                      out[k].scan_idxs = Ascending(TargetScansInSpan(strict))
            /\ \A j, k \in DOMAIN out : out[j].mz_lane_idx = out[k].mz_lane_idx => j = k
            /\ {out[k].mz_lane_idx : k \in DOMAIN out} =
                   {result.lanes[i] : i \in {j \in DOMAIN result.lanes :
                        FGreater(result.correlations[j], Ratio(result.min_correlation))}}

\* ---- Ensemble (ensemble.py) ----
NotAttached == [kind |-> "error", error |-> "Ensemble has not been assigned to an Injection yet"]

NoScanGiven == [kind |-> "error", error |-> "Neither scan_idx nor scan_rt arguments given"]

AttributeUnset == [kind |-> "error", error |-> "AttributeError"]

\* Injection: the two scan arrays of one acquisition (injection.py, lines 31-32)
Injection(scan_array_ms1, scan_array_ms2) ==
    [kind |-> "Injection", scan_array_ms1 |-> scan_array_ms1,
     scan_array_ms2 |-> scan_array_ms2]

\* Ensemble(ms1_cofeatures, ms2_cofeatures) (lines 23-44): no injection, the
\* calculated attributes (attrs) not yet set
Ensemble(ms1_cofeatures, ms2_cofeatures) ==
    [kind |-> "Ensemble", ms1_cofeatures |-> ms1_cofeatures,
     ms2_cofeatures |-> ms2_cofeatures, injection |-> NoValue, attrs |-> NoValue,
     ms1_cofeature_mz_lane_idxs |-> NoValue, ms2_cofeature_mz_lane_idxs |-> NoValue]

\* np.argmax(ftr_ptr_intsys) (line 61), as a position of ms1_cofeatures
BaseIdx(ftr_ptr_intsys) == SeqArgMax(ftr_ptr_intsys)

\* ndarray.mean (line 70)
Mean(q) == FDiv(FSum([k \in DOMAIN q |-> FromInt(q[k])], Len(q)), FromInt(Len(q)))

\* Ensemble._populate_attrs (lines 50-74) on an ensemble whose injection is
\* set: the ensemble with its attributes, and the error raised if any
populate_attrs(ens) ==
    LET ms1_scan_array == ens.injection.scan_array_ms1
        maxima == [k \in DOMAIN ens.ms1_cofeatures |->
                     get_max_intsy(ens.ms1_cofeatures[k], ms1_scan_array)]
        failed == {k \in DOMAIN maxima : maxima[k].kind = "error"}
    IN  IF failed # {} THEN [ensemble |-> ens, raised |-> maxima[SetMin(failed)]]
        ELSE IF maxima = <<>> THEN [ensemble |-> ens, raised |-> EmptyReduction]
        ELSE LET idx == BaseIdx([k \in DOMAIN maxima |-> maxima[k].value])
                 base_ftr_ptr == ens.ms1_cofeatures[idx]
                 bpc == get_chrom_array(base_ftr_ptr, ms1_scan_array).value
                 apex == SeqArgMax([k \in DOMAIN bpc |-> bpc[k].intsy])
             IN  [ensemble |->
                    [ens EXCEPT !.attrs =
                       [kind |-> "attrs",
                        base_ms1_cofeature_idx |-> idx - 1,
                        base_scan_num |->
                            get_max_intsy_scan_num(base_ftr_ptr, ms1_scan_array).value,
                        base_mz |-> Mean(get_mz_values(base_ftr_ptr, ms1_scan_array).value),
                        base_intsy |-> bpc[apex].intsy,
                        peak_rt |-> bpc[apex].rt]],
                  raised |-> NoValue]

\* Ensemble.set_injection (lines 76-81)
set_injection(ens, injection) == populate_attrs([ens EXCEPT !.injection = injection])

\* Ensemble._get_scan_array (lines 191-221), ms_level 1 or 2
get_scan_array(ens, ms_level) ==
    IF ens.injection = NoValue THEN NotAttached
    ELSE Ok(IF ms_level = 1 THEN ens.injection.scan_array_ms1
            ELSE ens.injection.scan_array_ms2)

\* Ensemble._get_cofeatures (lines 223-238), idxs = slice(None)
get_cofeatures(ens, ms_level) ==
    IF ms_level = 1 THEN ens.ms1_cofeatures ELSE ens.ms2_cofeatures

\* the chromatogram of every cofeature (lines 161-173), the injection set
chromatograms_of(ens, ms_level) ==
    LET cofeatures == get_cofeatures(ens, ms_level)
        arr == get_scan_array(ens, ms_level).value
        chroms == [k \in DOMAIN cofeatures |-> get_chrom_array(cofeatures[k], arr)]
        failed == {k \in DOMAIN chroms : chroms[k].kind = "error"}
    IN  IF failed # {} THEN chroms[SetMin(failed)]
        ELSE Ok([k \in DOMAIN chroms |-> chroms[k].value])

\* get_chromatograms answering with an empty list while no injection is set
get_chromatograms_or_nothing(ens, ms_level) ==
    IF ens.injection = NoValue THEN Ok(<<>>)
    ELSE chromatograms_of(ens, ms_level)

\* Ensemble.get_chromatograms (lines 140-173)
get_chromatograms(ens, ms_level) ==
    IF ens.injection = NoValue THEN NotAttached
    ELSE chromatograms_of(ens, ms_level)

\* ScanArray.get_spectrum (scan_array.py, lines 257-264): one row per lane
scan_array_get_spectrum(arr, scan) ==
    [r \in 1..NumLanes(arr) |-> [mz |-> At(arr.mz_arr, r - 1, scan),
                                  intsy |-> At(arr.intsy_arr, r - 1, scan)]]

\* "not x" for an optional number: None or 0
Falsy(x) == x = NoValue \/ x = Ok(0)

\* the cache slot of a level (lines 125-128): None (NoValue) or Ok(idxs)
cache_slot(ens, ms_level) ==
    IF ms_level = 1 THEN ens.ms1_cofeature_mz_lane_idxs
    ELSE ens.ms2_cofeature_mz_lane_idxs

\* Ensemble._get_mz_lane_idxs (lines 114-137): the lane indices it returns and
\* the ensemble it leaves (no statement of it assigns a slot)
get_mz_lane_idxs(ens, ms_level, force_refresh) ==
    LET slot == cache_slot(ens, ms_level)
        cofeatures == get_cofeatures(ens, ms_level)
    IN  IF ~force_refresh /\ slot # NoValue /\ slot.value # <<>>
        THEN [mz_lane_idxs |-> slot.value, ensemble |-> ens]
        ELSE [mz_lane_idxs |-> [k \in DOMAIN cofeatures |-> cofeatures[k].mz_lane_idx],
              ensemble |-> ens]

\* Ensemble.get_spectrum (lines 84-111); an argument is None (NoValue) or Ok(n)
get_spectrum(ens, ms_level, scan, scan_rt) ==
    LET arr == get_scan_array(ens, ms_level)
    IN  IF arr.kind = "error" THEN arr
        ELSE IF Falsy(scan) /\ Falsy(scan_rt) THEN NoScanGiven
        ELSE LET at == IF Falsy(scan) THEN rt_to_scan_num(arr.value, scan_rt.value)
                       ELSE scan.value
                 mz_lane_idxs == get_mz_lane_idxs(ens, ms_level, FALSE).mz_lane_idxs
                 spec == scan_array_get_spectrum(arr.value, at)
             IN  IF mz_lane_idxs = <<>> THEN Ok(spec)
                 ELSE Ok([k \in DOMAIN mz_lane_idxs |-> spec[mz_lane_idxs[k] + 1]])

\* the ensemble as a get_spectrum call leaves it
after_get_spectrum(ens, ms_level, scan, scan_rt) ==
    IF get_spectrum(ens, ms_level, scan, scan_rt).kind = "error" THEN ens
    ELSE get_mz_lane_idxs(ens, ms_level, FALSE).ensemble

\* Ensemble.get_base_chromatogram (lines 175-189)
get_base_chromatogram(ens, ms_level) ==
    LET arr == get_scan_array(ens, ms_level)
    IN  IF arr.kind = "error" THEN arr
        ELSE IF ens.attrs = NoValue THEN AttributeUnset
        ELSE get_chrom_array(ens.ms1_cofeatures[ens.attrs.base_ms1_cofeature_idx + 1],
                             arr.value)

\* ---- an ensemble, its injection attached or not, and one query ----
WholeLane(arr, lane) == make_feature_pointer(arr, lane, NoRange)

\* ms1 pointer lists over a three-lane array
Ms1Cofeatures(arr) ==
    {<<WholeLane(arr, 0), WholeLane(arr, 1), WholeLane(arr, 2)>>,
     <<WholeLane(arr, 2), WholeLane(arr, 1)>>,
     <<make_feature_pointer(arr, 1, <<1, 2, 3, 4>>), WholeLane(arr, 0)>>,
     <<WholeLane(arr, 0)>>}

\* ms2 pointer lists: none matched, or one
Ms2Cofeatures(arr) == {<<>>, <<WholeLane(arr, 0)>>}

QueryScans == {NoValue, Ok(0), Ok(2)}

QueryRts == {NoValue, Ok(20)}

InitEnsemble ==
    /\ pc = "ensemble"
    /\ mz_tolerance = 0
    /\ scan_gap_tolerance = 0
    /\ min_intsy = 0
    /\ total_num_scans = 0
    /\ scan_num = 0
    /\ spectra_rt = <<>>
    /\ wip_features = <<>>
    /\ final_features = <<>>
    /\ cur_signals = <<>>
    /\ processed = {}
    /\ scan_array = NoValue
    /\ \E a \in SourceArrays, b \in TargetArrays :
         /\ arrays = <<a, b>>
         /\ \E ms1 \in Ms1Cofeatures(a), ms2 \in Ms2Cofeatures(b) :
              ensemble = Ensemble(ms1, ms2)
    /\ pointer = NoValue
    /\ result = NoValue
    /\ controller = NoValue

ensemble_unchanged == <<controller, mz_tolerance, scan_gap_tolerance, min_intsy, total_num_scans,
                        scan_num, spectra_rt, wip_features, final_features,
                        cur_signals, processed, scan_array, arrays, pointer>>

\* ensemble.set_injection(injection)
SetInjection ==
    /\ pc = "ensemble"
    /\ \E r \in {set_injection(ensemble, Injection(arrays[1], arrays[2]))} :
         /\ ensemble' = r.ensemble
         /\ result' = [op |-> "set_injection", returned |-> r.raised]
    /\ pc' = "attached"
    /\ UNCHANGED ensemble_unchanged

AskChromatograms ==
    /\ pc \in {"ensemble", "attached"}
    /\ \E ms_level \in {1, 2} :
         result' = [op |-> "get_chromatograms", ms_level |-> ms_level,
                    attached |-> ensemble.injection # NoValue,
                    returned |-> get_chromatograms(ensemble, ms_level)]
    /\ pc' = "asked"
    /\ UNCHANGED ensemble_unchanged
    /\ UNCHANGED ensemble

AskSpectrum ==
    /\ pc \in {"ensemble", "attached"}
    /\ \E ms_level \in {1, 2}, scan \in QueryScans, scan_rt \in QueryRts :
         /\ result' = [op |-> "get_spectrum", ms_level |-> ms_level,
                       scan |-> scan, scan_rt |-> scan_rt,
                       attached |-> ensemble.injection # NoValue,
                       returned |-> get_spectrum(ensemble, ms_level, scan, scan_rt)]
         /\ ensemble' = after_get_spectrum(ensemble, ms_level, scan, scan_rt)
    /\ pc' = "asked"
    /\ UNCHANGED ensemble_unchanged

AskBaseChromatogram ==
    /\ pc \in {"ensemble", "attached"}
    /\ \E ms_level \in {1, 2} :
         result' = [op |-> "get_base_chromatogram", ms_level |-> ms_level,
                    attached |-> ensemble.injection # NoValue,
                    returned |-> get_base_chromatogram(ensemble, ms_level)]
    /\ pc' = "asked"
    /\ UNCHANGED ensemble_unchanged
    /\ UNCHANGED ensemble

NextEnsemble == SetInjection \/ AskChromatograms \/ AskSpectrum \/ AskBaseChromatogram

SpecEnsemble == InitEnsemble /\ [][NextEnsemble]_vars

\* ---- claims about Ensemble ----
Attached == pc = "attached" /\ ensemble.attrs # NoValue

\* the intensities / masses at every scan a pointer lists
ListedIntsys(ptr, arr) ==
    [k \in DOMAIN ptr.scan_idxs |-> At(arr.intsy_arr, ptr.mz_lane_idx, ptr.scan_idxs[k])]

ListedMzs(ptr, arr) ==
    [k \in DOMAIN ptr.scan_idxs |-> At(arr.mz_arr, ptr.mz_lane_idx, ptr.scan_idxs[k])]

MaxListedIntsy(ptr, arr) == SetMax({ListedIntsys(ptr, arr)[k] : k \in DOMAIN ptr.scan_idxs})

BasePointer == ensemble.ms1_cofeatures[ensemble.attrs.base_ms1_cofeature_idx + 1]

\* C18: after set_injection, base_ms1_cofeature_idx names an ms1 pointer whose
\* maximum intensity is the highest among the ms1 pointers, base_intsy is that
\* pointer's maximum intensity and peak_rt the retention time of a scan where
\* the pointer reaches it
C18_BaseIsMostIntensePointer ==
    Attached =>
        LET arr == arrays[1]
            top == MaxListedIntsy(BasePointer, arr)
        IN  /\ \A k \in DOMAIN ensemble.ms1_cofeatures :
                 MaxListedIntsy(ensemble.ms1_cofeatures[k], arr) <= top
            /\ ensemble.attrs.base_intsy = top
            /\ \E k \in DOMAIN BasePointer.scan_idxs :
                 /\ ListedIntsys(BasePointer, arr)[k] = top
                 /\ ensemble.attrs.peak_rt = arr.rt_arr[BasePointer.scan_idxs[k]]

\* C19: after set_injection, base_mz is the mean of the base pointer's mass
\* values over its populated (non-zero) scans only
C19_BaseMzIsMeanOverPopulatedScans ==
    Attached =>
        LET populated == SelectSeq(ListedMzs(BasePointer, arrays[1]), LAMBDA m : m # 0)
        IN  populated # <<>> => ensemble.attrs.base_mz = Mean(populated)

AskedBeforeAttach ==
    /\ pc = "asked"
    /\ result.op \in {"get_chromatograms", "get_spectrum", "get_base_chromatogram"}
    /\ ~result.attached

\* C20: every query made before set_injection (get_chromatograms,
\* get_spectrum, get_base_chromatogram; either MS level) fails with an error
\* and returns no data
C20_QueryBeforeAttachFails ==
    AskedBeforeAttach =>
        /\ result.returned.kind = "error"
        /\ DOMAIN result.returned = {"kind", "error"}

C20_Witness ==
    /\ AskedBeforeAttach
    /\ result.op = "get_chromatograms"
    /\ result.ms_level = 2
    /\ ensemble.ms2_cofeatures = <<>>
    /\ result.returned = NotAttached

\* a get_spectrum request by scan index, made with the injection set
SpectrumAskedByScan ==
    /\ pc = "asked"
    /\ result.op = "get_spectrum"
    /\ result.attached
    /\ result.scan # NoValue
    /\ result.scan_rt = NoValue

\* C21: after attach, get_spectrum(ms_level, scan) returns, for every scan
\* index of that level's array, one mass/intensity pair per pointer of that
\* level's cofeature list, read from the pointer's lane at that scan; an empty
\* list gives, without error, a spectrum with no entries
C21_SpectrumHasOnePairPerPointer ==
    SpectrumAskedByScan =>
        LET arr == arrays[result.ms_level]
            cofeatures == get_cofeatures(ensemble, result.ms_level)
            scan == result.scan.value
        IN  /\ result.returned.kind = "ok"
            /\ result.returned.value =
                 [k \in DOMAIN cofeatures |->
                    [mz |-> At(arr.mz_arr, cofeatures[k].mz_lane_idx, scan),
                     intsy |-> At(arr.intsy_arr, cofeatures[k].mz_lane_idx, scan)]]

\* a get_spectrum request that returned a spectrum
SpectrumReturned ==
    /\ pc = "asked"
    /\ result.op = "get_spectrum"
    /\ result.returned.kind = "ok"

\* C22: after a get_spectrum request for a level, that level's cache slot
\* (_ms1_cofeature_mz_lane_idxs or _ms2_cofeature_mz_lane_idxs) is populated,
\* so that later requests reuse it; the other level's slot is unaffected
C22_SpectrumRequestFillsCacheSlot ==
    SpectrumReturned =>
        /\ cache_slot(ensemble, result.ms_level) # NoValue
        /\ cache_slot(ensemble, 3 - result.ms_level) = NoValue

\* C23: after construction a FeaturePointer's scan_idxs is sorted ascending
\* and scan_start <= scan_end, whatever order the indices were supplied in
C23_ScanIdxsSortedAfterConstruction ==
    pointer # NoValue =>
        /\ \A i \in DOMAIN pointer.scan_idxs : \A j \in DOMAIN pointer.scan_idxs :
             i < j => pointer.scan_idxs[i] <= pointer.scan_idxs[j]
        /\ scan_start(pointer) <= scan_end(pointer)

\* a pointer just made from indices supplied in descending order
C23_Witness ==
    /\ pc = "pointer"
    /\ result.op = "make_feature_pointer"
    /\ result.scan_idxs # NoRange
    /\ result.scan_idxs[1] > result.scan_idxs[2]
    /\ pointer.scan_idxs = <<result.scan_idxs[2], result.scan_idxs[1]>>

\* C24: build_scan_array fails and produces no ScanArray when min_intsy is
\* negative (before any tracking is done) and when tracking yields no feature
C24_BuildFailsOnBadThresholdOrNoFeature ==
    /\ min_intsy < 0 =>
         /\ pc \in {"start", "failed"}
         /\ scan_num = 0
         /\ wip_features = <<>>
         /\ processed = {}
         /\ scan_array = NoValue
    /\ scan_array # NoValue => final_features # <<>>
    /\ (/\ pc \notin {"start", "tracking"}
        /\ min_intsy >= 0
        /\ scan_num = total_num_scans
        /\ final_features = <<>>)
         => pc = "failed" /\ scan_array = NoValue

\* tracking of two or more frames ended with no feature, and the build failed
C24_Witness ==
    /\ pc = "failed"
    /\ min_intsy >= 0
    /\ total_num_scans >= 2
    /\ scan_num = total_num_scans
    /\ wip_features = <<>>
    /\ final_features = <<>>
    /\ scan_array = NoValue

\* every lane there is, finalized ones first
CreatedLanes == final_features \o wip_features

\* no lane is held twice; while tracking, an active lane's gap counter is
\* within scan_gap_tolerance and a finalized lane's has just exceeded it
LanesHeldOnce ==
    /\ \A i \in DOMAIN CreatedLanes : \A j \in DOMAIN CreatedLanes :
         i # j => LaneId(CreatedLanes[i]) # LaneId(CreatedLanes[j])
    /\ pc = "tracking" =>
         /\ \A k \in DOMAIN wip_features :
              wip_features[k].gap_counter <= scan_gap_tolerance
         /\ \A k \in DOMAIN final_features :
              final_features[k].gap_counter = scan_gap_tolerance + 1

\* a step loses no lane and leaves every finalized lane as it is; the step
\* that ends the sequence returns every lane, unchanged, and nothing else
FinalizedLanesKept ==
    /\ \A k \in DOMAIN CreatedLanes :
         \E g \in SeqRange(wip_features') \cup SeqRange(final_features') :
             LaneId(g) = LaneId(CreatedLanes[k])
    /\ \A k \in DOMAIN final_features : final_features[k] \in SeqRange(final_features')
    /\ pc' = "built" =>
         /\ wip_features' = <<>>
         /\ Len(final_features') = Len(CreatedLanes)
         /\ \A k \in DOMAIN CreatedLanes : CreatedLanes[k] \in SeqRange(final_features')

\* C25: every lane created during tracking is finalized exactly once, in the
\* frame where its gap counter first exceeds scan_gap_tolerance or at the end
\* of the sequence; the returned list holds each created lane exactly once,
\* and a finalized lane's arrays and gap counter are never changed afterwards
C25_EachLaneFinalizedOnce == [](LanesHeldOnce) /\ [][FinalizedLanesKept]_vars

\* a returned list of three or more lanes, one finalized for its gap during
\* tracking and one finalized at the end of the sequence
C25_Witness ==
    /\ pc = "built"
    /\ Len(final_features) >= 3
    /\ \E ftr \in SeqRange(final_features) : ftr.gap_counter > scan_gap_tolerance
    /\ \E ftr \in SeqRange(final_features) : ftr.gap_counter <= scan_gap_tolerance

\* the frame handled last came after the first and was not skipped
LastFrameProcessed ==
    /\ pc = "tracking"
    /\ scan_num >= 2
    /\ (scan_num - 1) \in processed

\* the positions of CreatedLanes that hold the signal at the scan slot
Recorders(signal, slot) ==
    {k \in DOMAIN CreatedLanes :
        /\ CreatedLanes[k].mz[slot] = signal.mz
        /\ CreatedLanes[k].intsy[slot] = signal.intsy}

\* C26: in every processed frame each signal above min_intsy is recorded at
\* that scan slot in exactly one lane (the lane that claimed it or a new lane
\* started for it), and a lane's slot holds no more than one of the signals
C26_EachSignalInExactlyOneLane ==
    LastFrameProcessed =>
        /\ \A j \in DOMAIN cur_signals :
             /\ Cardinality(Recorders(cur_signals[j], scan_num - 1)) = 1
             /\ \A k \in Recorders(cur_signals[j], scan_num - 1) :
                  CreatedLanes[k].rt[scan_num - 1] = spectra_rt[scan_num]
        /\ \A k \in DOMAIN CreatedLanes :
             CreatedLanes[k].mz[scan_num - 1] # 0 =>
                 Cardinality({j \in DOMAIN cur_signals :
                                k \in Recorders(cur_signals[j], scan_num - 1)}) = 1

\* a processed frame of which one signal was claimed by an older lane and
\* another started a new lane
C26_Witness ==
    /\ LastFrameProcessed
    /\ \E k \in DOMAIN CreatedLanes :
         /\ CreatedLanes[k].mz[scan_num - 1] # 0
         /\ LaneId(CreatedLanes[k])[1] < scan_num - 1
    /\ \E k \in DOMAIN CreatedLanes : LaneId(CreatedLanes[k])[1] = scan_num - 1

\* the step handled a frame after the first that has fewer than 2 signals
\* above min_intsy
FewSignalsFrame ==
    /\ pc = "tracking"
    /\ scan_num' = scan_num + 1
    /\ Len(cur_signals') < 2

\* C27: a frame after the first with fewer than 2 signals above min_intsy
\* changes nothing: no lane is written, no gap counter advances, no lane is
\* finalized or created, and the active list keeps its order
C27_SparseFrameChangesNothing ==
    [][FewSignalsFrame =>
         /\ wip_features' = wip_features
         /\ final_features' = final_features
         /\ pc' = "tracking"]_vars

\* a frame holding a single signal above min_intsy went by while lanes were
\* active
C27_Witness ==
    /\ pc = "tracking"
    /\ scan_num >= 2
    /\ (scan_num - 1) \notin processed
    /\ Len(cur_signals) = 1
    /\ Len(wip_features) >= 2

\* C28: when the matching of a frame after the first starts, the active lanes
\* are ordered by descending most-recent intensity (the louder of two lanes
\* competing for a signal picks first)
C28_ActiveLanesLoudestFirst ==
    [][FrameProcessed =>
         \A i \in DOMAIN wip_features : \A j \in DOMAIN wip_features :
             i < j => latest_scan(wip_features[i]).intsy
                        >= latest_scan(wip_features[j]).intsy]_vars

\* ---- ProcessController (ProcessController.py) and its ProcessRunner threads ----
MaxProcesses == 2

\* ProcessRunner.status values a run ends in (process_runner.py, lines 108-126)
TerminalStatuses == {"completed", "failed", "error"}

\* ProcessController() (lines 27-63): no process yet.  process_status is the
\* status attribute of each ProcessRunner created; finished and called count
\* the process_finished emissions and the on_completion_func calls per process
ProcessController ==
    [kind |-> "ProcessController",
     process_counter |-> 0,
     return_func_registry |-> {},
     running_processes |-> {},
     last_known_status |-> <<>>,
     process_status |-> <<>>,
     finished |-> <<>>,
     called |-> <<>>]

\* a function with one more key
With(f, k, v) == [x \in DOMAIN f \cup {k} |-> IF x = k THEN v ELSE f[x]]

\* del f[k]
Without(f, k) == [x \in DOMAIN f \ {k} |-> f[x]]

\* ProcessController.start_process (lines 65-117)
start_process(c, has_on_completion_func) ==
    LET process_id == c.process_counter
    IN  [c EXCEPT
           !.process_counter = process_id + 1,
           !.running_processes = @ \cup {process_id},
           !.last_known_status = With(@, process_id, "ready"),
           !.return_func_registry =
               IF has_on_completion_func THEN @ \cup {process_id} ELSE @,
           !.process_status = With(@, process_id, "ready"),
           !.finished = With(@, process_id, 0),
           !.called = With(@, process_id, 0)]

\* ProcessController.get_process_status (lines 160-175): "None" stands for None
get_process_status(c, process_id) ==
    IF process_id \in c.running_processes THEN c.process_status[process_id]
    ELSE "None"

\* ProcessController.cleanup_completed_processes (lines 245-264)
cleanup_completed_processes(c) ==
    [c EXCEPT !.running_processes =
                  {pid \in @ : c.process_status[pid] \notin TerminalStatuses}]

\* ProcessController._handle_process_finished (lines 394-415), the slot of
\* process_finished
handle_process_finished(c, process_id) ==
    cleanup_completed_processes(
        [c EXCEPT !.called[process_id] =
                      IF process_id \in c.return_func_registry THEN @ + 1 ELSE @])

\* the processes whose status differs from the last known one
StatusChanged(c) ==
    {pid \in DOMAIN c.last_known_status :
        get_process_status(c, pid) # c.last_known_status[pid]}

\* ProcessController._poll_active_processes (lines 291-350): the first process
\* in dictionary order whose status changed is handled, then the loop breaks
poll_active_processes(c) ==
    IF StatusChanged(c) = {} THEN c
    ELSE LET process_id == SetMin(StatusChanged(c))
             current_status == get_process_status(c, process_id)
             noted == [c EXCEPT !.last_known_status[process_id] = current_status]
         IN  IF current_status \in TerminalStatuses
             THEN LET handled ==
                          handle_process_finished(
                              [noted EXCEPT !.finished[process_id] = @ + 1], process_id)
                  IN  [handled EXCEPT !.last_known_status = Without(@, process_id)]
             ELSE noted

InitProcess ==
    /\ pc = "controller"
    /\ mz_tolerance = 0
    /\ scan_gap_tolerance = 0
    /\ min_intsy = 0
    /\ total_num_scans = 0
    /\ scan_num = 0
    /\ spectra_rt = <<>>
    /\ wip_features = <<>>
    /\ final_features = <<>>
    /\ cur_signals = <<>>
    /\ processed = {}
    /\ scan_array = NoValue
    /\ arrays = <<>>
    /\ pointer = NoValue
    /\ result = NoValue
    /\ ensemble = NoValue
    /\ controller = ProcessController

process_unchanged == <<pc, ensemble, mz_tolerance, scan_gap_tolerance, min_intsy,
                       total_num_scans, scan_num, spectra_rt, wip_features,
                       final_features, cur_signals, processed, scan_array, arrays,
                       pointer, result>>

\* controller.start_process(..., on_completion_func=...)
StartProcess ==
    /\ pc = "controller"
    /\ controller.process_counter < MaxProcesses
    /\ \E has_on_completion_func \in BOOLEAN :
         controller' = start_process(controller, has_on_completion_func)
    /\ UNCHANGED process_unchanged

\* ProcessRunner.run begins (process_runner.py, line 60)
RunnerStarts ==
    /\ pc = "controller"
    /\ \E pid \in DOMAIN controller.process_status :
         /\ controller.process_status[pid] = "ready"
         /\ controller' = [controller EXCEPT !.process_status[pid] = "running"]
    /\ UNCHANGED process_unchanged

\* ProcessRunner.run ends (process_runner.py, lines 107-126)
RunnerEnds ==
    /\ pc = "controller"
    /\ \E pid \in DOMAIN controller.process_status, status \in TerminalStatuses :
         /\ controller.process_status[pid] = "running"
         /\ controller' = [controller EXCEPT !.process_status[pid] = status]
    /\ UNCHANGED process_unchanged

\* the QTimer fires (lines 49-53)
PollActiveProcesses ==
    /\ pc = "controller"
    /\ controller' = poll_active_processes(controller)
    /\ UNCHANGED process_unchanged

NextProcess == StartProcess \/ RunnerStarts \/ RunnerEnds \/ PollActiveProcesses

\* the timer keeps firing and every thread keeps running
SpecProcess ==
    /\ InitProcess
    /\ [][NextProcess]_vars
    /\ WF_vars(PollActiveProcesses)
    /\ WF_vars(RunnerStarts)
    /\ WF_vars(RunnerEnds)

\* ---- claims about ProcessController ----
ProcessIds == 0..(MaxProcesses - 1)

Started(pid) == pc = "controller" /\ pid \in DOMAIN controller.process_status

\* the process was started with an on_completion_func and its run has ended
EndedWithCallback(pid) ==
    /\ Started(pid)
    /\ pid \in controller.return_func_registry
    /\ controller.process_status[pid] \in TerminalStatuses

\* process_finished was emitted for it and its on_completion_func called once
Reported(pid) ==
    /\ Started(pid)
    /\ controller.finished[pid] = 1
    /\ controller.called[pid] = 1

\* C29: once a process started with an on_completion_func reaches a terminal
\* status, the polling loop eventually emits process_finished for it and
\* calls its on_completion_func, and never more than once, whatever the
\* number of running processes and the order of their ends and the polls
C29_EveryEndedProcessIsReported ==
    /\ \A pid \in ProcessIds : EndedWithCallback(pid) ~> Reported(pid)
    /\ [](\A pid \in ProcessIds : Started(pid) => controller.called[pid] <= 1)

\* the retention times of the scans the reference lists
ReferenceRts == {arrays[1].rt_arr[pointer.scan_idxs[k]] : k \in DOMAIN pointer.scan_idxs}

\* an across-search against a target array none of whose scans has a
\* retention time inside the reference's retention-time span
AcrossWithNoTargetScanInSpan ==
    /\ pc = "searched"
    /\ result.op = "across"
    /\ \A c \in Scans(NumScans(arrays[2])) :
         \/ arrays[2].rt_arr[c] < SetMin(ReferenceRts)
         \/ arrays[2].rt_arr[c] > SetMax(ReferenceRts)

\* C30: when no scan of the target array has a retention time inside the
\* reference's retention-time span, find_cofeatures_across_scan_array returns
\* an empty list rather than failing
C30_NoTargetScanGivesEmptyList ==
    AcrossWithNoTargetScanInSpan => result.returned = Ok(<<>>)

====
